---- MODULE Spec2Model ----
(***************************************************************************)
(* A model of common/envs.py (the environment adapters DMC, Atari, Sc2,    *)
(* Dummy and the wrappers TimeLimit, NormalizeAction, OneHotAction,        *)
(* RewardObs, ResetObs) and of the tensor shapes of                        *)
(* common/models/set_transformer.py.                                       *)
(*                                                                         *)
(* Each part of the program has its own specification over the same        *)
(* variables; the variables of the other parts stay at their initial       *)
(* values.                                                                 *)
(*   Spec          one TimeLimit wrapper over an environment               *)
(*   SpecSc2       the StarCraft II adapter                                *)
(*   SpecWrappers  a stack of wrappers over an adapter                     *)
(*   SpecThreads   threads, each with an environment of its own            *)
(*   SpecAttention the tensor shapes of the attention layers               *)
(*   SpecOneHot    OneHotAction over a dict-valued action space            *)
(*   SpecDMC       DMC.step with its action_repeat                         *)
(***************************************************************************)
EXTENDS Integers, Sequences, FiniteSets, TLC

VARIABLES
    functions,            \* pysc2's actions._FUNCTIONS, the list Sc2 enumerates
    unit_max,             \* Sc2.unit_max
    action_embed_lookup,  \* Sc2.action_embed_lookup   function id -> index
    action_id_lookup,     \* Sc2.action_id_lookup      index -> function id
    sc2_action,           \* the action dict of the last Sc2.step
    sc2_call,             \* the FunctionCall the last Sc2.step gave the simulator
    sc2_keys,             \* the keys of the action dict the last Sc2.step read
    sc2_timestep,         \* the timestep the simulator returned last
    sc2_obs,              \* what collect_sc_observation made of it
    sc2_ret,              \* how the last Sc2.step / Sc2.reset ended
    tl_duration,          \* TimeLimit._duration
    tl_step,              \* TimeLimit._step: nothing (None) or a count
    tl_ret,               \* how the last TimeLimit.step / reset ended
    tl_reset_called,      \* whether TimeLimit.reset was ever called
    tl_done_by,           \* what ended the episode since the last reset, if anything
    env_steps,            \* steps the wrapped environment made since the last reset
    w_stack,              \* an adapter (first) and the wrappers around it, inside out
    w_steps,              \* per layer, the _step of a TimeLimit (nothing otherwise)
    w_trace,              \* per layer, the calls it got in the last outer call and how it ended
    w_ret,                \* how the last step / reset of the outermost layer ended
    th_kind,              \* per thread, the adapter of its environment
    th_pc,                \* per thread, the method it is in and where
    LOCK,                 \* Atari.LOCK: the thread that holds it, if any
    attn_layer,           \* d_model, num_heads and num_seed_vectors of the layers
    attn_in,              \* the shapes of the tensors of the last call
    attn_out,             \* the shapes of the tensors it returned
    oh_space,             \* the action space of the env OneHotAction wraps
    oh_action,            \* the action given to OneHotAction.step
    oh_forwarded,         \* the action the wrapped step received
    oh_sample,            \* what a sample() of OneHotAction.action_space did
    dmc_repeat,           \* DMC._action_repeat
    dmc_script,           \* the timesteps the simulator returns to its next steps
    dmc_ret               \* the last call of DMC: what it returned, the steps made

sc2vars == <<functions, unit_max, action_embed_lookup, action_id_lookup,
             sc2_action, sc2_call, sc2_keys, sc2_timestep, sc2_obs, sc2_ret>>

tlvars == <<tl_duration, tl_step, tl_ret, tl_reset_called, tl_done_by, env_steps>>

wvars == <<w_stack, w_steps, w_trace, w_ret>>

thvars == <<th_kind, th_pc, LOCK>>

attnvars == <<attn_layer, attn_in, attn_out>>

ohvars == <<oh_space, oh_action, oh_forwarded, oh_sample>>

dmcvars == <<dmc_repeat, dmc_script, dmc_ret>>

vars == <<sc2vars, tlvars, wvars, thvars, attnvars, ohvars, dmcvars>>

\* Python's None, where a string stands for the value.
None == "None"

\* A variable that may hold nothing yet is a list of no or one value.
Nothing == <<>>
Some(x) == <<x>>

Range(f) == {f[x] : x \in DOMAIN f}

RECURSIVE Flatten(_)
Flatten(ss) == IF ss = <<>> THEN <<>> ELSE Head(ss) \o Flatten(Tail(ss))

(***************************************************************************)
(* Bounds of the model.                                                    *)
(***************************************************************************)
MaxUnitMax == 2        \* Sc2 is constructed with max_units in 1..MaxUnitMax
MaxFeatureUnits == 2   \* a timestep shows at most this many units on screen
MaxDuration == 5       \* TimeLimit is constructed with a duration in 1..MaxDuration
MaxWrappers == 2       \* an adapter is wrapped at most this many times
StackDuration == 2     \* the duration of the TimeLimit wrappers of a stack
NumThreads == 2        \* the threads that use environments at the same time
MaxBatch == 2          \* the batch size of a tensor is in 1..MaxBatch
MaxSetLen == 2         \* a set or sequence has 1..MaxSetLen elements
MaxHeads == 2          \* num_heads is in 1..MaxHeads
MaxSeeds == 2          \* num_seed_vectors is in 1..MaxSeeds
MaxChoices == 2        \* a Discrete action space has 1..MaxChoices choices
MaxActionRepeat == 3   \* action_repeat is in 1..MaxActionRepeat

(***************************************************************************)
(* The pysc2 library data the adapter reads.                               *)
(***************************************************************************)

\* Sc2.blocked_actions
blocked_actions == {4}

\* The general_id an ability-specific function carries (any non-zero id).
GeneralAbility == 3674

\* Ability functions of the list: function 3 is the specific version of a
\* general function, function 1 is specific or general (drawn at
\* construction).  The others are UI functions, whose general_id is 0.
SpecificFunctions == {3}
AbilityFunctions == {1}

\* actions._FUNCTIONS: function ids are the positions in the list, from 0.
\* `specific` are the ability functions that are specific versions of a
\* general one.
FUNCTIONS(specific) ==
    LET fn(id, args) ==
            [id |-> id,
             general_id |-> IF id \in specific \cup SpecificFunctions
                           THEN GeneralAbility ELSE 0,
             args |-> args]
    IN  << fn(0, <<>>), fn(1, <<0>>), fn(2, <<1, 0>>), fn(3, <<1>>), fn(4, <<1, 1>>) >>

\* get_arg_size_lookup(screen_size, minimap_size): argument type id -> the
\* sizes of its dimensions: type 0 is a point of a 2 x 1 screen, type 1 a
\* scalar with two values.
args_size_lookup == (0 :> <<2, 1>>) @@ (1 :> <<2>>)

\* get_unit_embed_lookup(): unit type id -> embedding id
unit_embed_lookup == (48 :> 1) @@ (105 :> 2)

\* A row of timestep.observation.feature_units, cut to three columns:
\* unit_type (column 0), alliance (selected into the observation) and owner
\* (not selected).
FeatureUnitRows == { <<48, 1, 7>>, <<105, 4, 8>> }

(***************************************************************************)
(* Sc2                                                                     *)
(***************************************************************************)

\* The function of the list with this id (Functions.__getitem__).
FunctionById(fs, id) == CHOOSE f \in Range(fs) : f.id = id

ArgKey(arg_id, i) == <<"arg", arg_id, i>>
ActionIdKey == <<"action_id">>

\* Sc2._get_arg_keys
GetArgKeys(arg_id) ==
    [i \in 1..Len(args_size_lookup[arg_id]) |-> ArgKey(arg_id, i - 1)]

\* The mutant of Enumerable: the blocked actions are not left out.
EnumerableBlockedToo(f) == f.general_id = 0

\* Sc2._get_action_lookup, the condition under which a function is enumerated.
Enumerable(f) == f.general_id = 0 /\ f.id \notin blocked_actions

\* Sc2._get_action_lookup: the loop over actions._FUNCTIONS from position k,
\* with the lookup built so far and the next index.
RECURSIVE ActionLookupLoop(_, _, _, _)
ActionLookupLoop(fs, k, lookup, index) ==
    IF k > Len(fs) THEN lookup
    ELSE IF Enumerable(fs[k])
         THEN ActionLookupLoop(fs, k + 1, (fs[k].id :> index) @@ lookup, index + 1)
         ELSE ActionLookupLoop(fs, k + 1, lookup, index)

GetActionLookup(fs) == ActionLookupLoop(fs, 1, <<>>, 0)

\* dict(reversed(item) for item in lookup.items()): items come in insertion
\* order, which is the order of the indices, and a later item overwrites.
ReversedLookup(lookup) ==
    [i \in Range(lookup) |->
        CHOOSE f \in DOMAIN lookup :
            /\ lookup[f] = i
            /\ \A g \in DOMAIN lookup : lookup[g] = i => g <= f]

\* Sc2.action_space: key -> the n of its Discrete space
ActionSpace(embed) ==
    LET ArgKeys == UNION { Range(GetArgKeys(a)) : a \in DOMAIN args_size_lookup }
    IN  [k \in {ActionIdKey} \cup ArgKeys |->
            IF k = ActionIdKey THEN Cardinality(DOMAIN embed)
            ELSE args_size_lookup[k[2]][k[3] + 1]]

\* Sc2.action_arg_lookup: index -> the argument keys the function requires
ActionArgLookup ==
    [i \in DOMAIN action_id_lookup |->
        LET required_args == FunctionById(functions, action_id_lookup[i]).args
        IN  Flatten([r \in 1..Len(required_args) |-> GetArgKeys(required_args[r])])]

\* The rows of units_out: embed id, then the selected feature columns.
UnitsOut(units) ==
    [r \in 1..Len(units) |-> <<unit_embed_lookup[units[r][1]], units[r][2]>>]

\* A row of the padding.
ZeroRow == <<0, 0>>

\* The mutant of AvailableActionsObs: the blocked ids are looked up too.
AvailableActionsObsUnfiltered(av_actions) ==
    IF \E a \in av_actions : a \notin DOMAIN action_embed_lookup
    THEN [error |-> "KeyError"]
    ELSE LET action_indices == {action_embed_lookup[a] : a \in av_actions}
         IN  [error |-> None,
              vector |-> [j \in 1..Cardinality(DOMAIN action_embed_lookup) |->
                             IF (j - 1) \in action_indices THEN 1 ELSE 0]]

\* Sc2.collect_sc_observation, the available_actions part.
\* A KeyError when an available id is neither blocked nor enumerated.
AvailableActionsObs(av_actions) ==
    LET kept == {a \in av_actions : a \notin blocked_actions}
    IN  IF \E a \in kept : a \notin DOMAIN action_embed_lookup
        THEN [error |-> "KeyError"]
        ELSE LET action_indices == {action_embed_lookup[a] : a \in kept}
             IN  [error |-> None,
                  vector |-> [j \in 1..Cardinality(DOMAIN action_embed_lookup) |->
                                 IF (j - 1) \in action_indices THEN 1 ELSE 0]]

\* Sc2.collect_sc_observation, the units part.
\* np.zeros with a negative number of rows is a ValueError.
UnitsObs(units) ==
    LET units_out == UnitsOut(units)
        unit_dim == unit_max - Len(units_out)
    IN  IF unit_dim < 0
        THEN [error |-> "ValueError"]
        ELSE [error |-> None,
              units |-> units_out \o [r \in 1..unit_dim |-> ZeroRow],
              unit_count |-> Len(units_out)]

\* Sc2.collect_sc_observation: the observation, or the exception and the
\* part of the observation it was raised in.
CollectScObservation(timestep) ==
    LET av == AvailableActionsObs(timestep.available_actions)
        un == UnitsObs(timestep.feature_units)
    IN  IF av.error # None THEN [error |-> av.error, part |-> "available_actions"]
        ELSE IF un.error # None THEN [error |-> un.error, part |-> "units"]
        ELSE [error |-> None,
              available_actions |-> av.vector,
              units |-> un.units,
              unit_count |-> un.unit_count]

\* The function ids the simulator reports as available.  Sc2.__init__ builds
\* the interface format without hide_specific_actions, so the library's
\* default applies: only functions with general_id 0 are reported.
ReportableActions(fs) == {f.id : f \in {g \in Range(fs) : g.general_id = 0}}

RECURSIVE SeqsUpTo(_, _)
SeqsUpTo(S, n) ==
    IF n = 0 THEN {<<>>}
    ELSE LET shorter == SeqsUpTo(S, n - 1)
         IN  shorter \cup {Append(s, x) : s \in {t \in shorter : Len(t) = n - 1}, x \in S}

\* The timesteps the simulator returns: any set of reportable actions with
\* an empty screen, any list of units, and a last timestep.
Timesteps(fs) ==
    LET ts(av, units, last) ==
            [available_actions |-> av, feature_units |-> units, last |-> last]
    IN  {ts(av, <<>>, FALSE) : av \in SUBSET ReportableActions(fs)}
        \cup {ts({}, u, FALSE) : u \in SeqsUpTo(FeatureUnitRows, MaxFeatureUnits)}
        \cup {ts({}, <<>>, TRUE)}

\* The action dicts an agent draws from Sc2.action_space.
ActionDicts ==
    LET space == ActionSpace(action_embed_lookup)
    IN  {a \in [DOMAIN space -> 0..2] : \A k \in DOMAIN space : a[k] < space[k]}

\* Sc2.__init__
Sc2Init ==
    /\ \E specific \in SUBSET AbilityFunctions : functions = FUNCTIONS(specific)
    /\ unit_max \in 1..MaxUnitMax
    /\ action_embed_lookup = GetActionLookup(functions)
    /\ action_id_lookup = ReversedLookup(action_embed_lookup)
    /\ sc2_action = Nothing
    /\ sc2_call = Nothing
    /\ sc2_keys = <<>>
    /\ sc2_timestep = Nothing
    /\ sc2_obs = Nothing
    /\ sc2_ret = Nothing

\* What step and reset return (done is timestep.last()), or the exception
\* they raise.
Sc2Outcome(kind, timestep, obs) ==
    IF obs.error # None THEN [call |-> kind, raised |-> obs.error]
    ELSE [call |-> kind, raised |-> None, done |-> timestep.last]

\* The mutant of Sc2FunctionCall: the index is used as the function id.
Sc2FunctionCallByIndex(action) ==
    LET action_id == action[ActionIdKey]
        required_args == FunctionById(functions, action_id).args
        keys == [r \in 1..Len(required_args) |-> GetArgKeys(required_args[r])]
    IN  [function |-> action_id,
         arguments |-> [r \in 1..Len(required_args) |->
                           [k \in 1..Len(keys[r]) |-> action[keys[r][k]]]],
         keys |-> Flatten(keys)]

\* Sc2.step, the rebuilding of the action: the FunctionCall, and the argument
\* keys of the action dict read for it.
Sc2FunctionCall(action) ==
    LET action_id == action_id_lookup[action[ActionIdKey]]
        required_args == FunctionById(functions, action_id).args
        keys == [r \in 1..Len(required_args) |-> GetArgKeys(required_args[r])]
    IN  [function |-> action_id,
         arguments |-> [r \in 1..Len(required_args) |->
                           [k \in 1..Len(keys[r]) |-> action[keys[r][k]]]],
         keys |-> Flatten(keys)]

\* Sc2.step
Sc2Step(action, timestep) ==
    LET fc == Sc2FunctionCall(action)
        obs == CollectScObservation(timestep)
    IN  /\ sc2_action' = Some(action)
        /\ sc2_keys' = fc.keys
        /\ sc2_call' = Some([function |-> fc.function, arguments |-> fc.arguments])
        /\ sc2_timestep' = Some(timestep)
        /\ sc2_obs' = Some(obs)
        /\ sc2_ret' = Some(Sc2Outcome("step", timestep, obs))
        /\ UNCHANGED <<functions, unit_max, action_embed_lookup, action_id_lookup>>
        /\ UNCHANGED <<tlvars, wvars, thvars, attnvars, ohvars, dmcvars>>

\* Sc2.reset
Sc2Reset(timestep) ==
    /\ sc2_timestep' = Some(timestep)
    /\ sc2_obs' = Some(CollectScObservation(timestep))
    /\ sc2_ret' = Some(Sc2Outcome("reset", timestep, CollectScObservation(timestep)))
    /\ sc2_action' = Nothing
    /\ sc2_call' = Nothing
    /\ sc2_keys' = <<>>
    /\ UNCHANGED <<functions, unit_max, action_embed_lookup, action_id_lookup>>
    /\ UNCHANGED <<tlvars, wvars, thvars, attnvars, ohvars, dmcvars>>

\* No Sc2 is constructed.
Sc2Idle ==
    /\ functions = <<>>
    /\ unit_max = 0
    /\ action_embed_lookup = <<>>
    /\ action_id_lookup = <<>>
    /\ sc2_action = Nothing
    /\ sc2_call = Nothing
    /\ sc2_keys = <<>>
    /\ sc2_timestep = Nothing
    /\ sc2_obs = Nothing
    /\ sc2_ret = Nothing

(***************************************************************************)
(* TimeLimit                                                               *)
(***************************************************************************)

\* A dict, by its keys.
Dict(keys) == [type |-> "dict", keys |-> keys]

\* The 4-tuple (obs, reward, done, info) a step returns.
StepReturn(obs, reward, done, info) ==
    [type |-> "tuple4", obs |-> obs, reward |-> reward, done |-> done, info |-> info]

\* A call that returned `value`, and one that raised `exception`.
Returned(value) == [raised |-> None, value |-> value]
Raised(exception) == [raised |-> exception]

\* The mutant of TimeLimitNew: the wrapper starts as if reset.
TimeLimitNewZero == Some(0)

\* TimeLimit.__init__: self._step = None
TimeLimitNew == Nothing

\* TimeLimit.reset: self._step = 0
TimeLimitResetStep == Some(0)

\* The mutant of LimitReached: the limit is one step late.
LimitReachedLate(step, duration) == step > duration

\* TimeLimit.step: self._step >= self._duration
LimitReached(step, duration) == step >= duration

\* The mutant of AfterLimit: the count starts again without a reset.
AfterLimitZero == Some(0)

\* TimeLimit.step: self._step = None, once the limit is reached
AfterLimit == Nothing

\* TimeLimit.step.  `inner` is what self._env.step(action) returns or raises,
\* if it is called.  The result: what step returns or raises, whether the
\* wrapped step was called, and the new self._step.
TimeLimitStep(step, duration, inner) ==
    IF step = Nothing
    THEN [ret |-> Raised("AssertionError"), env_called |-> FALSE, step |-> step]
    ELSE IF inner.raised # None
    THEN [ret |-> inner, env_called |-> TRUE, step |-> step]
    ELSE IF LimitReached(step[1] + 1, duration)
    THEN [ret |-> Returned([inner.value EXCEPT
                      !.done = TRUE,
                      !.info = Dict(inner.value.info.keys \cup {"discount"})]),
          env_called |-> TRUE,
          step |-> AfterLimit]
    ELSE [ret |-> inner, env_called |-> TRUE, step |-> Some(step[1] + 1)]

\* What the wrapped environment's step may do: raise, or return a tuple with
\* any reward, any done and an info with or without a discount.
EnvStepResults ==
    {Raised("EnvError")}
    \cup {Returned(StepReturn(Dict({"image"}), reward, done, Dict(info))) :
            reward \in {0, 1}, done \in BOOLEAN, info \in {{}, {"discount"}}}

\* TimeLimit.__init__
TLInit ==
    /\ tl_duration \in 1..MaxDuration
    /\ tl_step = TimeLimitNew
    /\ tl_ret = Nothing
    /\ tl_reset_called = FALSE
    /\ tl_done_by = Nothing
    /\ env_steps = 0

\* TimeLimit.step, over an environment whose step does `inner`.  The steps
\* of an episode are counted up to one past the duration.
TLStep(inner) ==
    LET r == TimeLimitStep(tl_step, tl_duration, inner)
        stepped == r.env_called /\ inner.raised = None
        count == IF stepped THEN env_steps + 1 ELSE env_steps
    IN  /\ env_steps <= tl_duration
        /\ tl_step' = r.step
        /\ env_steps' = count
        /\ tl_ret' = Some([call |-> "step",
                           ret |-> r.ret,
                           env_called |-> r.env_called,
                           env_done |-> IF stepped THEN Some(inner.value.done) ELSE Nothing])
        /\ tl_done_by' =
              IF r.ret.raised = None /\ r.ret.value.done
              THEN (IF count >= tl_duration THEN Some("limit")
                    ELSE IF tl_done_by = Nothing THEN Some("env") ELSE tl_done_by)
              ELSE tl_done_by
        /\ UNCHANGED <<tl_duration, tl_reset_called>>
        /\ UNCHANGED <<sc2vars, wvars, thvars, attnvars, ohvars, dmcvars>>

\* TimeLimit.reset
TLReset ==
    /\ tl_step' = TimeLimitResetStep
    /\ env_steps' = 0
    /\ tl_reset_called' = TRUE
    /\ tl_done_by' = Nothing
    /\ tl_ret' = Some([call |-> "reset",
                       ret |-> Returned(Dict({"image"})),
                       env_called |-> TRUE,
                       env_done |-> Nothing])
    /\ UNCHANGED tl_duration
    /\ UNCHANGED <<sc2vars, wvars, thvars, attnvars, ohvars, dmcvars>>

\* No TimeLimit is constructed.
TLIdle ==
    /\ tl_duration = 0
    /\ tl_step = Nothing
    /\ tl_ret = Nothing
    /\ tl_reset_called = FALSE
    /\ tl_done_by = Nothing
    /\ env_steps = 0

(***************************************************************************)
(* The adapters and the wrappers, stacked                                  *)
(***************************************************************************)

Adapters == {"DMC", "Atari", "Sc2", "Dummy"}
Wrappers == {"TimeLimit", "NormalizeAction", "OneHotAction", "RewardObs", "ResetObs"}

\* The action_space of the outermost layer of a stack: its container (a
\* gym.spaces.Dict, a plain dict, or an error on access) and the space under
\* 'action' (a Box, a Discrete, or missing).
RECURSIVE ActionSpaceOf(_)
ActionSpaceOf(stack) ==
    LET kind == stack[Len(stack)]
        below == ActionSpaceOf(SubSeq(stack, 1, Len(stack) - 1))
    IN  CASE kind \in {"DMC", "Dummy"} -> [container |-> "Dict", action |-> "Box"]
          [] kind = "Atari" -> [container |-> "dict", action |-> "Discrete"]
          [] kind = "Sc2" -> [container |-> "dict", action |-> "Missing"]
          [] kind = "NormalizeAction" ->
                IF below.container = "Dict"
                THEN [container |-> "dict", action |-> "Box"]
                ELSE [container |-> "error", action |-> "Missing"]
          [] kind = "OneHotAction" ->
                IF below.container = "error" \/ below.action = "Box"
                THEN [container |-> "error", action |-> "Missing"]
                ELSE [container |-> "dict",
                      action |-> IF below.action = "Discrete" THEN "Box" ELSE "Missing"]
          [] OTHER -> below

\* Whether the constructors of a stack succeed: RewardObs and ResetObs assert
\* that their key is not yet an observation, NormalizeAction reads the
\* bounds of the Box under 'action', OneHotAction the keys of the action space.
RECURSIVE Constructible(_)
Constructible(stack) ==
    IF Len(stack) = 1 THEN stack[1] \in Adapters
    ELSE LET kind == stack[Len(stack)]
             inner == SubSeq(stack, 1, Len(stack) - 1)
         IN  /\ Constructible(inner)
             /\ kind \in {"RewardObs", "ResetObs"} => kind \notin Range(inner)
             /\ kind = "NormalizeAction" =>
                   /\ ActionSpaceOf(inner).container # "error"
                   /\ ActionSpaceOf(inner).action = "Box"
             /\ kind = "OneHotAction" => ActionSpaceOf(inner).container # "error"

\* The stacks of an adapter and up to MaxWrappers wrappers.
Stacks ==
    {stack \in UNION {[1..n -> Adapters \cup Wrappers] : n \in 1..(MaxWrappers + 1)} :
        /\ \A k \in 2..Len(stack) : stack[k] \in Wrappers
        /\ Constructible(stack)}

\* The observation of each adapter: dict(time_step.observation) and the
\* image; the image and the ram; the parts collect_sc_observation fills.
AdapterObs(kind) ==
    CASE kind = "DMC" -> Dict({"position", "image"})
      [] kind = "Atari" -> Dict({"image", "ram"})
      [] kind = "Sc2" -> Dict({"available_actions", "screen", "mini", "player",
                               "units", "unit_count"})
      [] kind = "Dummy" -> Dict({"image"})

\* The step of each adapter.  DMC asserts that the action is finite; Sc2
\* fails when collect_sc_observation does; Dummy is never done.
AdapterStep(kind, action, sim) ==
    CASE kind = "DMC" ->
            IF ~action.finite THEN Raised("AssertionError")
            ELSE Returned(StepReturn(AdapterObs(kind), 1, sim.last, Dict({"discount"})))
      [] kind = "Atari" ->
            Returned(StepReturn(AdapterObs(kind), 1, sim.last, Dict({"lives"})))
      [] kind = "Sc2" ->
            IF sim.fails THEN Raised("ValueError")
            ELSE Returned(StepReturn(AdapterObs(kind), 1, sim.last, Dict({})))
      [] kind = "Dummy" ->
            Returned(StepReturn(AdapterObs(kind), 0, FALSE, Dict({})))

\* The reset of each adapter.
AdapterReset(kind, sim) ==
    IF kind = "Sc2" /\ sim.fails THEN Raised("ValueError")
    ELSE Returned(AdapterObs(kind))

\* A dict with one more key.
WithKey(dict, key) == Dict(dict.keys \cup {key})

\* What a wrapper's step or reset does: what it returns or raises, how often
\* it called the same method of the environment it wraps, and its new _step.
Did(ret, env_calls, step) == [ret |-> ret, env_calls |-> env_calls, step |-> step]

\* TimeLimit.step, as a wrapper of a stack
TimeLimitWrapStep(step, inner) ==
    LET r == TimeLimitStep(step, StackDuration, inner)
    IN  Did(r.ret, IF r.env_called THEN 1 ELSE 0, r.step)

\* TimeLimit.reset
TimeLimitWrapReset(step, inner) == Did(inner, 1, TimeLimitResetStep)

\* NormalizeAction.step: the rescaled action is finite when the action is.
NormalizeActionStep(step, inner) == Did(inner, 1, step)

\* NormalizeAction has no reset of its own: __getattr__ hands out the
\* wrapped environment's.
NormalizeActionReset(step, inner) == Did(inner, 1, step)

\* OneHotAction.step
OneHotActionStep(step, inner) == Did(inner, 1, step)

\* OneHotAction.reset
OneHotActionReset(step, inner) == Did(inner, 1, step)

\* The mutant of RewardObsStep: the observation alone is returned.
RewardObsStepObsOnly(step, inner) ==
    IF inner.raised # None THEN Did(inner, 1, step)
    ELSE Did(Returned(WithKey(inner.value.obs, "reward")), 1, step)

\* RewardObs.step
RewardObsStep(step, inner) ==
    IF inner.raised # None THEN Did(inner, 1, step)
    ELSE Did(Returned([inner.value EXCEPT !.obs = WithKey(@, "reward")]), 1, step)

\* RewardObs.reset
RewardObsReset(step, inner) ==
    IF inner.raised # None THEN Did(inner, 1, step)
    ELSE Did(Returned(WithKey(inner.value, "reward")), 1, step)

\* ResetObs.step
ResetObsStep(step, inner) ==
    IF inner.raised # None THEN Did(inner, 1, step)
    ELSE Did(Returned([inner.value EXCEPT !.obs = WithKey(@, "reset")]), 1, step)

\* ResetObs.reset
ResetObsReset(step, inner) ==
    IF inner.raised # None THEN Did(inner, 1, step)
    ELSE Did(Returned(WithKey(inner.value, "reset")), 1, step)

\* The action a wrapper hands to the environment it wraps: OneHotAction
\* hands on indices, which are finite.
WrapperAction(kind, action) ==
    IF kind = "OneHotAction" THEN [action EXCEPT !.finite = TRUE] ELSE action

\* The method `op` of a wrapper.
WrapperCall(kind, op, step, inner) ==
    CASE kind = "TimeLimit" /\ op = "step" -> TimeLimitWrapStep(step, inner)
      [] kind = "TimeLimit" /\ op = "reset" -> TimeLimitWrapReset(step, inner)
      [] kind = "NormalizeAction" /\ op = "step" -> NormalizeActionStep(step, inner)
      [] kind = "NormalizeAction" /\ op = "reset" -> NormalizeActionReset(step, inner)
      [] kind = "OneHotAction" /\ op = "step" -> OneHotActionStep(step, inner)
      [] kind = "OneHotAction" /\ op = "reset" -> OneHotActionReset(step, inner)
      [] kind = "RewardObs" /\ op = "step" -> RewardObsStep(step, inner)
      [] kind = "RewardObs" /\ op = "reset" -> RewardObsReset(step, inner)
      [] kind = "ResetObs" /\ op = "step" -> ResetObsStep(step, inner)
      [] kind = "ResetObs" /\ op = "reset" -> ResetObsReset(step, inner)

\* A layer that was not called, and one that was.
NotCalled == [calls |-> 0, outcome |-> "not called"]
Called(calls, ret) ==
    [calls |-> calls, outcome |-> IF ret.raised = None THEN "returned" ELSE "raised"]

\* The call of `op` on layer k of the stack: what it returns or raises, the
\* _step of every layer after it, and per layer the calls it got.
RECURSIVE LayerCall(_, _, _, _, _)
LayerCall(k, op, action, sim, steps) ==
    IF k = 1
    THEN LET ret == IF op = "step" THEN AdapterStep(w_stack[1], action, sim)
                    ELSE AdapterReset(w_stack[1], sim)
         IN  [ret |-> ret,
              steps |-> steps,
              trace |-> [j \in 1..Len(w_stack) |->
                            IF j = 1 THEN Called(1, ret) ELSE NotCalled]]
    ELSE LET below == LayerCall(k - 1, op, WrapperAction(w_stack[k], action), sim, steps)
             did == WrapperCall(w_stack[k], op, steps[k], below.ret)
         IN  IF did.env_calls = 0
             THEN [ret |-> did.ret,
                   steps |-> [steps EXCEPT ![k] = did.step],
                   trace |-> [j \in 1..Len(w_stack) |->
                                 IF j = k THEN Called(1, did.ret) ELSE NotCalled]]
             ELSE [ret |-> did.ret,
                   steps |-> [below.steps EXCEPT ![k] = did.step],
                   trace |-> [below.trace EXCEPT
                                 ![k] = Called(1, did.ret),
                                 ![k - 1] = [@ EXCEPT !.calls = did.env_calls]]]

\* What the simulator under the adapter does in a call: whether its timestep
\* is the last, and whether it shows more units than Sc2 has room for.
SimOutcomes == [last : BOOLEAN, fails : BOOLEAN]

\* The actions given to the outermost layer.
StackActions == [finite : BOOLEAN]

\* The constructors, inside out.
WInit ==
    /\ w_stack \in Stacks
    /\ w_steps = [k \in 1..Len(w_stack) |->
                     IF w_stack[k] = "TimeLimit" THEN TimeLimitNew ELSE Nothing]
    /\ w_trace = [k \in 1..Len(w_stack) |-> NotCalled]
    /\ w_ret = Nothing

\* step of the outermost layer
WStep(action, sim) ==
    LET r == LayerCall(Len(w_stack), "step", action, sim, w_steps)
    IN  /\ w_steps' = r.steps
        /\ w_trace' = r.trace
        /\ w_ret' = Some([call |-> "step", ret |-> r.ret])
        /\ UNCHANGED w_stack
        /\ UNCHANGED <<sc2vars, tlvars, thvars, attnvars, ohvars, dmcvars>>

\* reset of the outermost layer
WReset(sim) ==
    LET r == LayerCall(Len(w_stack), "reset", [finite |-> TRUE], sim, w_steps)
    IN  /\ w_steps' = r.steps
        /\ w_trace' = r.trace
        /\ w_ret' = Some([call |-> "reset", ret |-> r.ret])
        /\ UNCHANGED w_stack
        /\ UNCHANGED <<sc2vars, tlvars, thvars, attnvars, ohvars, dmcvars>>

\* No stack is built.
WIdle ==
    /\ w_stack = <<>>
    /\ w_steps = <<>>
    /\ w_trace = <<>>
    /\ w_ret = Nothing

(***************************************************************************)
(* Threads and Atari.LOCK                                                  *)
(***************************************************************************)

Threads == 1..NumThreads

\* The methods of an environment.  A wrapper's method runs the method of the
\* same name of the adapter it wraps, so an environment is named by its
\* adapter.
Methods == {"init", "reset", "step", "close"}

\* The mutant of UsesLock: Atari.step takes the lock too.
UsesLockInStepToo(kind, method) ==
    kind = "Atari" /\ method \in {"init", "reset", "step"}

\* The methods with a `with self.LOCK:` block: Atari.__init__ and Atari.reset.
UsesLock(kind, method) == kind = "Atari" /\ method \in {"init", "reset"}

\* Where a thread is: not in a method (its environment not constructed yet,
\* constructed, or closed), or in a method: waiting for the lock, inside the
\* with-block, or in the rest of the method.
AtRest(state) == [method |-> "none", at |-> state]
In(method, at) == [method |-> method, at |-> at]

\* The methods a thread may call next.
Callable(pc) ==
    CASE pc = AtRest("new") -> {"init"}
      [] pc = AtRest("constructed") -> {"reset", "step", "close"}
      [] OTHER -> {}

\* Every thread is about to construct its own environment.
ThInit ==
    /\ th_kind \in [Threads -> Adapters]
    /\ th_pc = [t \in Threads |-> AtRest("new")]
    /\ LOCK = Nothing

\* Thread t calls a method of its environment.
ThCall(t, method) ==
    /\ method \in Callable(th_pc[t])
    /\ th_pc' = [th_pc EXCEPT ![t] =
                    In(method, IF UsesLock(th_kind[t], method) THEN "lock" ELSE "body")]
    /\ UNCHANGED <<th_kind, LOCK>>
    /\ UNCHANGED <<sc2vars, tlvars, wvars, attnvars, ohvars, dmcvars>>

\* `with self.LOCK:` entered: the lock is free and thread t takes it.
ThAcquire(t) ==
    /\ th_pc[t].at = "lock"
    /\ LOCK = Nothing
    /\ LOCK' = Some(t)
    /\ th_pc' = [th_pc EXCEPT ![t] = In(th_pc[t].method, "locked")]
    /\ UNCHANGED th_kind
    /\ UNCHANGED <<sc2vars, tlvars, wvars, attnvars, ohvars, dmcvars>>

\* The with-block left: the lock is given back.
ThRelease(t) ==
    /\ th_pc[t].at = "locked"
    /\ LOCK' = Nothing
    /\ th_pc' = [th_pc EXCEPT ![t] = In(th_pc[t].method, "body")]
    /\ UNCHANGED th_kind
    /\ UNCHANGED <<sc2vars, tlvars, wvars, attnvars, ohvars, dmcvars>>

\* The method returns.
ThReturn(t) ==
    /\ th_pc[t].at = "body"
    /\ th_pc' = [th_pc EXCEPT ![t] =
                    IF th_pc[t].method = "close" THEN AtRest("closed")
                    ELSE AtRest("constructed")]
    /\ UNCHANGED <<th_kind, LOCK>>
    /\ UNCHANGED <<sc2vars, tlvars, wvars, attnvars, ohvars, dmcvars>>

\* No thread runs.
ThIdle ==
    /\ th_kind = <<>>
    /\ th_pc = <<>>
    /\ LOCK = Nothing

(***************************************************************************)
(* set_transformer.py: the shapes of the tensors                           *)
(***************************************************************************)

\* The shape of a tensor is the list of its dimensions.  An operation whose
\* operands do not fit raises; its result is BadShape.
BadShape == <<-1>>

RECURSIVE Prod(_)
Prod(shape) == IF shape = <<>> THEN 1 ELSE Head(shape) * Prod(Tail(shape))

Last(shape) == shape[Len(shape)]
ButLast(shape, n) == SubSeq(shape, 1, Len(shape) - n)

\* tf.keras.layers.Dense(units): the last dimension becomes units.
Dense(x, units) ==
    IF x = BadShape THEN BadShape ELSE [x EXCEPT ![Len(x)] = units]

\* tf.reshape(x, target), one dimension of target being -1: it is inferred
\* from the number of elements, which the other dimensions must divide.
Reshape(x, target) ==
    LET known == Prod([i \in 1..Len(target) |-> IF target[i] = -1 THEN 1 ELSE target[i]])
    IN  IF x = BadShape \/ known = 0 \/ Prod(x) % known # 0 THEN BadShape
        ELSE [i \in 1..Len(target) |->
                 IF target[i] = -1 THEN Prod(x) \div known ELSE target[i]]

\* tf.transpose(x, perm): perm counts the dimensions from 0.
Transpose(x, perm) ==
    IF x = BadShape \/ Len(x) # Len(perm) THEN BadShape
    ELSE [i \in 1..Len(perm) |-> x[perm[i] + 1]]

\* tf.matmul(a, b, transpose_b): the leading dimensions agree, the inner
\* dimensions are equal.
MatMul(a, b, transpose_b) ==
    IF a = BadShape \/ b = BadShape \/ Len(a) < 2 \/ Len(a) # Len(b) THEN BadShape
    ELSE LET rows == a[Len(a) - 1]
             inner_a == Last(a)
             inner_b == IF transpose_b THEN Last(b) ELSE b[Len(b) - 1]
             cols == IF transpose_b THEN b[Len(b) - 1] ELSE Last(b)
         IN  IF ButLast(a, 2) # ButLast(b, 2) \/ inner_a # inner_b THEN BadShape
             ELSE ButLast(a, 2) \o <<rows, cols>>

\* a + b of tensors of the same rank, with broadcasting: each dimension is
\* the same in both, or 1 in one of them.
Broadcast(a, b) ==
    IF a = BadShape \/ b = BadShape \/ Len(a) # Len(b) THEN BadShape
    ELSE IF \E i \in 1..Len(a) : a[i] # b[i] /\ a[i] # 1 /\ b[i] # 1 THEN BadShape
    ELSE [i \in 1..Len(a) |-> IF a[i] = 1 THEN b[i] ELSE a[i]]

\* tf.tile(x, multiples)
Tile(x, multiples) == [i \in 1..Len(x) |-> x[i] * multiples[i]]

\* No mask is given (mask is None).
NoMask == <<>>

\* scaled_dot_product_attention: the shapes of output and attention_weights
ScaledDotProductAttention(q, k, v, mask) ==
    LET matmul_qk == MatMul(q, k, TRUE)
        scaled_attention_logits ==
            IF mask = NoMask THEN matmul_qk ELSE Broadcast(matmul_qk, mask)
        attention_weights == scaled_attention_logits
    IN  [output |-> MatMul(attention_weights, v, FALSE),
         attention_weights |-> attention_weights]

\* The mutant of SplitHeads: the transposition is left out.
SplitHeadsNoTranspose(x, batch_size, num_heads, depth) ==
    Reshape(x, <<batch_size, -1, num_heads, depth>>)

\* MultiHeadAttention.split_heads
SplitHeads(x, batch_size, num_heads, depth) ==
    Transpose(Reshape(x, <<batch_size, -1, num_heads, depth>>), <<0, 2, 1, 3>>)

\* MultiHeadAttention.call, with depth = d_model // num_heads
MultiHeadAttentionCall(layer, q, k, v, mask) ==
    LET depth == layer.d_model \div layer.num_heads
        batch_size == q[1]
        sq == SplitHeads(Dense(q, layer.d_model), batch_size, layer.num_heads, depth)
        sk == SplitHeads(Dense(k, layer.d_model), batch_size, layer.num_heads, depth)
        sv == SplitHeads(Dense(v, layer.d_model), batch_size, layer.num_heads, depth)
        att == ScaledDotProductAttention(sq, sk, sv, mask)
        scaled_attention == Transpose(att.output, <<0, 2, 1, 3>>)
        concat_attention == Reshape(scaled_attention, <<batch_size, -1, layer.d_model>>)
    IN  [output |-> Dense(concat_attention, layer.d_model),
         attention_weights |-> att.attention_weights]

\* PointwiseFeedforward.call
PointwiseFeedforwardCall(layer, x) == Dense(Dense(x, layer.d_model), layer.d_model)

\* TransformerLayer.call; layer normalization keeps the shape.
TransformerLayerCall(layer, x, y, mask) ==
    LET attn_output == MultiHeadAttentionCall(layer, x, y, y, mask).output
        out1 == Broadcast(x, attn_output)
        ffn_output == PointwiseFeedforwardCall(layer, out1)
    IN  Broadcast(out1, ffn_output)

\* PoolingMultiheadAttention.call
PoolingMultiheadAttentionCall(layer, x, mask) ==
    LET b == x[1]
        seed_vectors == <<1, layer.num_seed_vectors, layer.d_model>>
        s == Tile(seed_vectors, <<b, 1, 1>>)
    IN  TransformerLayerCall(layer, s, x, mask)

\* The depths and the sizes of the input features of the model.
Depths == {1, 2}
FeatureSizes == {1, 3}

\* The layers: the constructor asserts d_model % num_heads == 0.
AttentionLayers ==
    {[d_model |-> heads * depth, num_heads |-> heads, num_seed_vectors |-> seeds] :
        heads \in 1..MaxHeads, depth \in Depths, seeds \in 1..MaxSeeds}

\* The padding masks of a batch of b sets of n elements, and no mask.
Masks(b, n) == {NoMask, <<b, 1, 1, n>>}

\* The layers are constructed.
AttnInit ==
    /\ attn_layer \in AttentionLayers
    /\ attn_in = Nothing
    /\ attn_out = Nothing

\* A call of PoolingMultiheadAttention on a batch of b sets of n elements.
PmaCall(b, n, features, mask) ==
    LET x == <<b, n, features>>
    IN  /\ attn_in' = Some([layer |-> "PoolingMultiheadAttention",
                            q |-> <<>>, k |-> x, mask |-> mask])
        /\ attn_out' = Some([output |-> PoolingMultiheadAttentionCall(attn_layer, x, mask),
                             attention_weights |-> <<>>])
        /\ UNCHANGED attn_layer
        /\ UNCHANGED <<sc2vars, tlvars, wvars, thvars, ohvars, dmcvars>>

\* A call of MultiHeadAttention with queries of length seq_len_q and keys
\* and values of length seq_len_k.
MhaCall(b, seq_len_q, seq_len_k, features, mask) ==
    LET q == <<b, seq_len_q, features>>
        k == <<b, seq_len_k, features>>
    IN  /\ attn_in' = Some([layer |-> "MultiHeadAttention",
                            q |-> q, k |-> k, mask |-> mask])
        /\ attn_out' = Some(MultiHeadAttentionCall(attn_layer, q, k, k, mask))
        /\ UNCHANGED attn_layer
        /\ UNCHANGED <<sc2vars, tlvars, wvars, thvars, ohvars, dmcvars>>

\* No layer is constructed.
AttnIdle ==
    /\ attn_layer = <<>>
    /\ attn_in = Nothing
    /\ attn_out = Nothing

(***************************************************************************)
(* OneHotAction                                                            *)
(***************************************************************************)

\* The entries of an action vector are counted in units of 1e-8: One is 1.0,
\* Atol the atol = 1e-8 of np.allclose, RtolInv the inverse of its
\* rtol = 1e-5.
One == 100000000
Atol == 1
RtolInv == 100000

Abs(x) == IF x < 0 THEN -x ELSE x

\* The entries of the action vectors: 0, 1e-8, 0.999999, 1 and 2.
Entries == {0, Atol, One - 100, One, 2 * One}

\* np.isclose(a, b) of two numbers: |a - b| <= atol + rtol * |b|
IsClose(a, b) == Abs(a - b) - Atol <= Abs(b) \div RtolInv

\* np.allclose(a, b) of two vectors of one length
AllClose(a, b) == \A i \in DOMAIN a : IsClose(a[i], b[i])

\* np.argmax(v): the first position of the greatest entry, counted from 0.
ArgMax(v) ==
    LET first == CHOOSE i \in DOMAIN v :
                    /\ \A j \in DOMAIN v : v[j] <= v[i]
                    /\ \A j \in DOMAIN v : j < i => v[j] < v[i]
    IN  first - 1

\* np.zeros(n) with reference[index] = 1
OneHotVector(n, index) == [i \in 1..n |-> IF i = index + 1 THEN One ELSE 0]

\* The mutant of OneHotIndex: the reference is compared exactly.
OneHotIndexExact(v) ==
    LET index == ArgMax(v)
        reference == OneHotVector(Len(v), index)
    IN  IF reference # v THEN -1 ELSE index

\* The body of the loop of OneHotAction.step: the index a vector is
\* forwarded as.
OneHotIndex(v) ==
    LET index == ArgMax(v)
        reference == OneHotVector(Len(v), index)
    IN  IF ~AllClose(reference, v) THEN -1 ELSE index

\* OneHotAction.step: the action_indices given to the wrapped step, one per
\* key of self._keys.
OneHotActionIndices(keys, action) == [k \in keys |-> OneHotIndex(action[k])]

\* The action spaces OneHotAction wraps: a dict of Discrete spaces, by their
\* n; that of Atari, and one with the keys of Sc2's.
DictSpace(spaces) == [kind |-> "dict", spaces |-> spaces]
OneHotSpaces ==
    {DictSpace("action" :> n) : n \in 1..MaxChoices}
    \cup {DictSpace(("action_id" :> n) @@ ("arg_0_0" :> args_size_lookup[0][1])) :
            n \in 1..MaxChoices}

\* The action dicts given to step: a vector of length n per key, and
\* possibly a key the action space does not have.
OneHotActions(space) ==
    LET keys == DOMAIN space.spaces
        vectors == UNION {[1..space.spaces[k] -> Entries] : k \in keys}
        fitting == {a \in [keys -> vectors] :
                       \A k \in keys : Len(a[k]) = space.spaces[k]}
    IN  fitting \cup {a @@ ("other" :> <<One>>) : a \in fitting}

\* OneHotAction._sample_action: it reads the n of the wrapped action space,
\* which a Discrete has and a dict has not, and draws an index below it.
SampleActionOutcomes(space) ==
    IF space.kind = "Discrete"
    THEN {Returned(OneHotVector(space.n, index)) : index \in 0..(space.n - 1)}
    ELSE {Raised("AttributeError")}

\* OneHotAction.__init__: the keys of the wrapped action space are kept.
\* The action that step will be given is drawn here.
OhInit ==
    /\ oh_space \in OneHotSpaces
    /\ oh_action \in OneHotActions(oh_space)
    /\ oh_forwarded = Nothing
    /\ oh_sample = Nothing

\* OneHotAction.step, once, of the action oh_action.
OhStep ==
    /\ oh_forwarded = Nothing
    /\ oh_forwarded' = Some(OneHotActionIndices(DOMAIN oh_space.spaces, oh_action))
    /\ UNCHANGED <<oh_space, oh_action, oh_sample>>
    /\ UNCHANGED <<sc2vars, tlvars, wvars, thvars, attnvars, dmcvars>>

\* action_space[k].sample(), once: space.sample is self._sample_action.
OhSample(k) ==
    /\ oh_sample = Nothing
    /\ \E outcome \in SampleActionOutcomes(oh_space) :
          oh_sample' = Some([key |-> k, ret |-> outcome])
    /\ UNCHANGED <<oh_space, oh_action, oh_forwarded>>
    /\ UNCHANGED <<sc2vars, tlvars, wvars, thvars, attnvars, dmcvars>>

\* No OneHotAction is constructed.
OhIdle ==
    /\ oh_space = <<>>
    /\ oh_action = <<>>
    /\ oh_forwarded = Nothing
    /\ oh_sample = Nothing

(***************************************************************************)
(* DMC.step                                                                *)
(***************************************************************************)

\* What the simulator returns to a step: a reward, which may be None, and
\* whether the timestep is the last of the episode.
SimRewards == {Nothing, Some(1), Some(2)}
SimTimesteps == [reward : SimRewards, last : BOOLEAN]

\* time_step.reward or 0
RewardOrZero(reward) == IF reward = Nothing THEN 0 ELSE reward[1]

\* The mutant of BreakLoop: the loop is never left early.
BreakLoopNever(time_step) == FALSE

\* if time_step.last(): break
BreakLoop(time_step) == time_step.last

\* The loop of DMC.step from its i-th iteration on, with the reward summed so
\* far: the last time_step, the reward and the steps the simulator made.
RECURSIVE DmcLoop(_, _, _, _)
DmcLoop(script, action_repeat, i, reward) ==
    LET time_step == script[i]
        sum == reward + RewardOrZero(time_step.reward)
    IN  IF BreakLoop(time_step) \/ i = action_repeat
        THEN [time_step |-> time_step, reward |-> sum, sim_steps |-> i]
        ELSE DmcLoop(script, action_repeat, i + 1, sum)

\* DMC.step: what it returns or raises, and the steps the simulator made.
DmcStepResult(script, action_repeat, action) ==
    IF ~action.finite
    THEN [call |-> "step", ret |-> Raised("AssertionError"), sim_steps |-> 0]
    ELSE LET loop == DmcLoop(script, action_repeat, 1, 0)
         IN  [call |-> "step",
              ret |-> Returned(StepReturn(AdapterObs("DMC"), loop.reward,
                                          loop.time_step.last, Dict({"discount"}))),
              sim_steps |-> loop.sim_steps]

\* DMC.__init__ with action_repeat >= 1.  What the simulator will return to
\* the steps of the next call is drawn here.
DmcInit ==
    /\ dmc_repeat \in 1..MaxActionRepeat
    /\ dmc_script \in [1..dmc_repeat -> SimTimesteps]
    /\ dmc_ret = Nothing

\* DMC.step, once.
DmcStep(action) ==
    /\ dmc_ret = Nothing
    /\ dmc_ret' = Some(DmcStepResult(dmc_script, dmc_repeat, action))
    /\ UNCHANGED <<dmc_repeat, dmc_script>>
    /\ UNCHANGED <<sc2vars, tlvars, wvars, thvars, attnvars, ohvars>>

\* DMC.reset, once: the simulator is reset, not stepped.
DmcReset ==
    /\ dmc_ret = Nothing
    /\ dmc_ret' = Some([call |-> "reset", ret |-> Returned(AdapterObs("DMC")),
                        sim_steps |-> 0])
    /\ UNCHANGED <<dmc_repeat, dmc_script>>
    /\ UNCHANGED <<sc2vars, tlvars, wvars, thvars, attnvars, ohvars>>

\* No DMC is constructed.
DmcIdle ==
    /\ dmc_repeat = 0
    /\ dmc_script = <<>>
    /\ dmc_ret = Nothing

(***************************************************************************)
(* The specifications                                                      *)
(***************************************************************************)

Init == TLInit /\ Sc2Idle /\ WIdle /\ ThIdle /\ AttnIdle /\ OhIdle /\ DmcIdle
Next ==
    \/ \E inner \in EnvStepResults : TLStep(inner)
    \/ TLReset
Spec == Init /\ [][Next]_vars

InitSc2 == Sc2Init /\ TLIdle /\ WIdle /\ ThIdle /\ AttnIdle /\ OhIdle /\ DmcIdle
NextSc2 ==
    \/ \E timestep \in Timesteps(functions) : \E action \in ActionDicts :
          Sc2Step(action, timestep)
    \/ \E timestep \in Timesteps(functions) : Sc2Reset(timestep)
SpecSc2 == InitSc2 /\ [][NextSc2]_vars

InitWrappers == WInit /\ Sc2Idle /\ TLIdle /\ ThIdle /\ AttnIdle /\ OhIdle /\ DmcIdle
NextWrappers ==
    \/ \E action \in StackActions : \E sim \in SimOutcomes : WStep(action, sim)
    \/ \E sim \in SimOutcomes : WReset(sim)
SpecWrappers == InitWrappers /\ [][NextWrappers]_vars

InitThreads == ThInit /\ Sc2Idle /\ TLIdle /\ WIdle /\ AttnIdle /\ OhIdle /\ DmcIdle
NextThreads ==
    \/ \E t \in Threads : \E method \in Methods : ThCall(t, method)
    \/ \E t \in Threads : ThAcquire(t)
    \/ \E t \in Threads : ThRelease(t)
    \/ \E t \in Threads : ThReturn(t)
SpecThreads == InitThreads /\ [][NextThreads]_vars

InitAttention == AttnInit /\ Sc2Idle /\ TLIdle /\ WIdle /\ ThIdle /\ OhIdle /\ DmcIdle
NextAttention ==
    \/ \E b \in 1..MaxBatch, n \in 1..MaxSetLen, features \in FeatureSizes :
          \E mask \in Masks(b, n) : PmaCall(b, n, features, mask)
    \/ \E b \in 1..MaxBatch, seq_len_q \in 1..MaxSetLen, seq_len_k \in 1..MaxSetLen :
          \E features \in FeatureSizes, mask \in Masks(b, seq_len_k) :
              MhaCall(b, seq_len_q, seq_len_k, features, mask)
SpecAttention == InitAttention /\ [][NextAttention]_vars

InitOneHot == OhInit /\ Sc2Idle /\ TLIdle /\ WIdle /\ ThIdle /\ AttnIdle /\ DmcIdle
NextOneHot ==
    \/ OhStep
    \/ \E k \in DOMAIN oh_space.spaces : OhSample(k)
SpecOneHot == InitOneHot /\ [][NextOneHot]_vars

InitDMC == DmcInit /\ Sc2Idle /\ TLIdle /\ WIdle /\ ThIdle /\ AttnIdle /\ OhIdle
NextDMC ==
    \/ \E action \in StackActions : DmcStep(action)
    \/ DmcReset
SpecDMC == InitDMC /\ [][NextDMC]_vars

(***************************************************************************)
(* Claims about Sc2                                                        *)
(***************************************************************************)

Min(a, b) == IF a < b THEN a ELSE b

\* The functions _get_action_lookup is to enumerate, by the list alone.
EnumeratedIds ==
    {functions[p].id : p \in {q \in 1..Len(functions) :
        functions[q].general_id = 0 /\ functions[q].id \notin blocked_actions}}

\* C1: for every number n of feature units in the timestep, n > max_units
\* included, collect_sc_observation does not fail, obs['units'] has exactly
\* max_units rows, the first min(n, max_units) are the units' rows (embed id,
\* then the selected features), the rest are zeros, and unit_count is at most
\* max_units.
C1_UnitsPaddedOrTruncated ==
    sc2_timestep # Nothing =>
        LET units == sc2_timestep[1].feature_units
            obs == sc2_obs[1]
            m == Min(Len(units), unit_max)
        IN  /\ obs.error = None
            /\ Len(obs.units) = unit_max
            /\ \A r \in 1..m :
                  obs.units[r] = <<unit_embed_lookup[units[r][1]], units[r][2]>>
            /\ \A r \in (m + 1)..unit_max : obs.units[r] = <<0, 0>>
            /\ obs.unit_count <= unit_max

\* C2: action_embed_lookup maps exactly the functions with general_id 0 that
\* are not blocked onto 0..N-1, in the order of the function list;
\* action_id_lookup is its inverse; action_space['action_id'] has N choices.
C2_ActionEnumerationBijection ==
    LET N == Cardinality(EnumeratedIds)
    IN  /\ DOMAIN action_embed_lookup = EnumeratedIds
        /\ Range(action_embed_lookup) = 0..(N - 1)
        /\ \A p, q \in 1..Len(functions) :
              (p < q /\ functions[p].id \in EnumeratedIds
                     /\ functions[q].id \in EnumeratedIds)
              => action_embed_lookup[functions[p].id] < action_embed_lookup[functions[q].id]
        /\ DOMAIN action_id_lookup = 0..(N - 1)
        /\ \A f \in EnumeratedIds : action_id_lookup[action_embed_lookup[f]] = f
        /\ \A i \in 0..(N - 1) : action_embed_lookup[action_id_lookup[i]] = i
        /\ ActionSpace(action_embed_lookup)[ActionIdKey] = N

\* C2's case: a function is skipped and the next enumerated one gets the next
\* index, and the blocked function, whose general_id is 0, has none.
C2_Witness ==
    /\ 1 \notin DOMAIN action_embed_lookup
    /\ 2 \in DOMAIN action_embed_lookup
    /\ action_embed_lookup[2] = 1
    /\ functions[5].id = 4 /\ functions[5].general_id = 0
    /\ 4 \notin DOMAIN action_embed_lookup

\* C3: the FunctionCall of Sc2.step carries the function id
\* action_id_lookup[i] and one argument list per required argument, in the
\* function's order, the list of argument type r being the values under
\* arg_<r>_<j>, j = 0..len(args_size_lookup[r])-1; the keys read are
\* action_arg_lookup[i]; the values under the other keys do not matter.
C3_StepPassesRequiredArguments ==
    sc2_call # Nothing =>
        LET action == sc2_action[1]
            call == sc2_call[1]
            i == action[ActionIdKey]
            p == CHOOSE q \in 1..Len(functions) : functions[q].id = action_id_lookup[i]
            required == functions[p].args
        IN  /\ call.function = action_id_lookup[i]
            /\ Len(call.arguments) = Len(required)
            /\ \A r \in 1..Len(required) :
                  call.arguments[r] =
                      [j \in 1..Len(args_size_lookup[required[r]]) |->
                          action[<<"arg", required[r], j - 1>>]]
            /\ sc2_keys = ActionArgLookup[i]
            /\ \A other \in ActionDicts :
                  (/\ other[ActionIdKey] = i
                   /\ \A k \in Range(ActionArgLookup[i]) : other[k] = action[k])
                  => LET fc == Sc2FunctionCall(other)
                     IN  [function |-> fc.function, arguments |-> fc.arguments] = call

\* C3's case: a step whose function takes two arguments, the second of two
\* dimensions, with a non-zero value under a key the function does not use
\* and an index that differs from the function id.
C3_Witness ==
    /\ sc2_call # Nothing
    /\ sc2_call[1].function = 2
    /\ sc2_action[1][ActionIdKey] = 1
    /\ sc2_action[1][<<"arg", 0, 0>>] = 1
    /\ sc2_call[1].arguments = << <<1>>, <<1, 0>> >>
    /\ sc2_ret[1].raised = None

\* C4: obs['available_actions'] is a 0/1 vector of length
\* len(action_embed_lookup) whose entry j is 1 exactly when the function with
\* index j is among the timestep's available actions; blocked ids are
\* skipped; building it succeeds for every id the simulator reports.
C4_AvailableActionsVector ==
    sc2_timestep # Nothing =>
        LET obs == sc2_obs[1]
        IN  /\ obs.error # None => obs.part # "available_actions"
            /\ obs.error = None =>
                  /\ Len(obs.available_actions) = Cardinality(DOMAIN action_embed_lookup)
                  /\ \A j \in 0..(Cardinality(DOMAIN action_embed_lookup) - 1) :
                        obs.available_actions[j + 1] =
                            IF action_id_lookup[j] \in sc2_timestep[1].available_actions
                            THEN 1 ELSE 0

\* C4's case: the blocked function and an enumerated one are available and
\* another enumerated one is not.
C4_Witness ==
    /\ sc2_timestep # Nothing
    /\ sc2_obs[1].error = None
    /\ 4 \in sc2_timestep[1].available_actions
    /\ \E j \in 1..Len(sc2_obs[1].available_actions) : sc2_obs[1].available_actions[j] = 1
    /\ \E j \in 1..Len(sc2_obs[1].available_actions) : sc2_obs[1].available_actions[j] = 0

(***************************************************************************)
(* Claims about TimeLimit                                                  *)
(***************************************************************************)

\* The step is a call of TimeLimit.step.
StepCalled == tl_ret # Nothing /\ tl_ret[1].call = "step"

\* The last call was a step that returned.
StepReturned == StepCalled /\ tl_ret[1].ret.raised = None

\* The last call was a step that failed 'Must reset environment.' without
\* calling the wrapped step.
StepRefused ==
    /\ StepCalled
    /\ tl_ret[1].ret.raised = "AssertionError"
    /\ ~tl_ret[1].env_called

\* C6: a step before the first reset, and a step after the step at which the
\* time limit ended the episode with no reset in between, fails the
\* assertion; the wrapped step is not called and the wrapper's state is
\* unchanged.
C6_StepNeedsReset ==
    [][ ((~tl_reset_called \/ tl_done_by = Some("limit")) /\ StepCalled')
        => (/\ StepRefused'
            /\ tl_step' = tl_step
            /\ tl_duration' = tl_duration
            /\ env_steps' = env_steps) ]_vars

\* C6's case: a step before the first reset was refused.
C6_Witness == StepRefused /\ ~tl_reset_called

\* C9: the wrapped environment makes at most D steps between two resets; the
\* D-th step after a reset returns done=True whatever the environment
\* reported, and every earlier step returns the environment's done.
C9_AtMostDurationSteps ==
    /\ env_steps <= tl_duration
    /\ StepReturned =>
          /\ env_steps = tl_duration => tl_ret[1].ret.value.done = TRUE
          /\ env_steps < tl_duration => Some(tl_ret[1].ret.value.done) = tl_ret[1].env_done

\* C9's case: the third step of an episode of duration 3 returned done=True
\* though the environment reported False.
C9_Witness ==
    /\ StepReturned
    /\ tl_duration = 3
    /\ env_steps = 3
    /\ tl_ret[1].env_done = Some(FALSE)
    /\ tl_ret[1].ret.value.done = TRUE

\* C10 as stated: once a step has returned done=True, for either reason,
\* every further step before the next reset is refused.
C10_ResetAfterEveryDone ==
    [][ (tl_done_by # Nothing /\ StepCalled') => StepRefused' ]_vars

\* C10 amended: once a step has returned done=True because the time limit
\* was reached, every further step before the next reset is refused; after a
\* done=True that only the wrapped environment reported, before the limit,
\* a step is not refused: the wrapped step is called.
C10_ResetAfterTimeLimit ==
    [][ /\ (tl_done_by = Some("limit") /\ StepCalled') => StepRefused'
        /\ (tl_done_by = Some("env") /\ StepCalled') => tl_ret'[1].env_called ]_vars

\* C10's case: a step was refused after the time limit ended the episode.
C10_Witness == StepRefused /\ tl_done_by = Some("limit") /\ tl_reset_called

(***************************************************************************)
(* Claims about the stack of wrappers                                      *)
(***************************************************************************)

\* C5: whatever the stack, a reset that succeeds returns one observation
\* dict, a step that succeeds returns a 4-tuple (obs, reward, done, info)
\* with obs a dict, and every wrapper whose step or reset succeeded called
\* the same method of the environment it wraps exactly once.
C5_UniformInterface ==
    w_ret # Nothing =>
        LET ret == w_ret[1].ret
        IN  /\ (w_ret[1].call = "reset" /\ ret.raised = None) =>
                  ret.value.type = "dict"
            /\ (w_ret[1].call = "step" /\ ret.raised = None) =>
                  /\ ret.value.type = "tuple4"
                  /\ ret.value.obs.type = "dict"
                  /\ ret.value.done \in BOOLEAN
                  /\ ret.value.info.type = "dict"
            /\ \A k \in 2..Len(w_stack) :
                  w_trace[k].outcome = "returned" =>
                      /\ w_trace[k].calls = 1
                      /\ w_trace[k - 1].calls = 1
                      /\ w_trace[k - 1].outcome = "returned"

\* C5's case: a step through RewardObs over TimeLimit over an adapter
\* returned, with the reward among the observations.
C5_Witness ==
    /\ w_ret # Nothing
    /\ w_ret[1].call = "step"
    /\ w_ret[1].ret.raised = None
    /\ Len(w_stack) = 3
    /\ w_stack[2] = "TimeLimit"
    /\ w_stack[3] = "RewardObs"
    /\ "reward" \in w_ret[1].ret.value.obs.keys
    /\ w_trace[1].calls = 1

(***************************************************************************)
(* Claims about threads                                                    *)
(***************************************************************************)

\* Thread t waits for a lock that another thread holds.
Blocked(t) == th_pc[t].at = "lock" /\ LOCK # Nothing

\* C7 as stated: no call on one environment is ever blocked by a call in
\* progress on another environment in another thread.
C7_NeverBlocked == \A t \in Threads : ~Blocked(t)

\* C7 amended: the only coordination is the class-wide Atari.LOCK.  Only the
\* constructor and the reset of an Atari wait for it or hold it, one thread
\* at a time, so only they can be blocked, and only by the constructor or
\* reset of another Atari; no step, no close and no method of another
\* adapter waits.
C7_OnlyAtariInitAndResetLock ==
    /\ \A t \in Threads :
          th_pc[t].at \in {"lock", "locked"} =>
              th_kind[t] = "Atari" /\ th_pc[t].method \in {"init", "reset"}
    /\ \A t \in Threads :
          Blocked(t) =>
              /\ LOCK[1] # t
              /\ th_kind[LOCK[1]] = "Atari"
              /\ th_pc[LOCK[1]].at = "locked"
    /\ \A t, u \in Threads :
          (th_pc[t].at = "locked" /\ th_pc[u].at = "locked") => t = u

\* C7's case: the reset of one Atari waits while another thread is inside
\* the locked part of the reset of another Atari.
C7_Witness ==
    \E t, u \in Threads :
        /\ t # u
        /\ Blocked(t)
        /\ th_pc[t].method = "reset"
        /\ th_pc[u] = In("reset", "locked")

(***************************************************************************)
(* Claims about the attention layers                                       *)
(***************************************************************************)

\* C8: for every batch size b and set length n >= 1, with d_model divisible
\* by num_heads, PoolingMultiheadAttention returns a tensor of shape
\* (b, num_seed_vectors, d_model), whatever n; MultiHeadAttention returns an
\* output of shape (b, seq_len_q, d_model) and attention weights of shape
\* (b, num_heads, seq_len_q, seq_len_k).
C8_AttentionShapes ==
    attn_in # Nothing =>
        LET in == attn_in[1]
            out == attn_out[1]
        IN  /\ in.layer = "PoolingMultiheadAttention" =>
                  out.output = <<in.k[1], attn_layer.num_seed_vectors, attn_layer.d_model>>
            /\ in.layer = "MultiHeadAttention" =>
                  /\ out.output = <<in.q[1], in.q[2], attn_layer.d_model>>
                  /\ out.attention_weights =
                         <<in.q[1], attn_layer.num_heads, in.q[2], in.k[2]>>

\* C8's case: a masked batch of two sets of two elements is pooled into one
\* seed vector by two heads.
C8_Witness ==
    /\ attn_in # Nothing
    /\ attn_in[1].layer = "PoolingMultiheadAttention"
    /\ attn_in[1].k = <<2, 2, 3>>
    /\ attn_in[1].mask # NoMask
    /\ attn_layer = [d_model |-> 4, num_heads |-> 2, num_seed_vectors |-> 1]
    /\ attn_out[1].output = <<2, 1, 4>>

(***************************************************************************)
(* Claims about OneHotAction                                               *)
(***************************************************************************)

\* Whether v is exactly the one-hot vector of index i.
ExactlyOneHot(v, i) == v = OneHotVector(Len(v), i)

\* Whether v is within the tolerance of np.allclose of the one-hot vector
\* of index i.
NearlyOneHot(v, i) ==
    \A j \in 1..Len(v) : IsClose(OneHotVector(Len(v), i)[j], v[j])

\* The wrapped step received exactly the keys of the wrapped action space.
ForwardedKeys == DOMAIN oh_forwarded[1] = DOMAIN oh_space.spaces

\* C11 as claimed: every key's one-hot vector is forwarded as its index,
\* every vector that is not exactly one-hot as -1, and the wrapped step
\* receives exactly the keys of the wrapped action space.
C11_ExactOneHotOrMinusOne ==
    oh_forwarded # Nothing =>
        /\ ForwardedKeys
        /\ \A k \in DOMAIN oh_space.spaces :
              LET v == oh_action[k]
                  n == oh_space.spaces[k]
              IN  /\ \A i \in 0..(n - 1) :
                        ExactlyOneHot(v, i) => oh_forwarded[1][k] = i
                  /\ (~\E i \in 0..(n - 1) : ExactlyOneHot(v, i)) =>
                        oh_forwarded[1][k] = -1

\* C11, amended: every key's vector that is within the tolerance of
\* np.allclose of the one-hot vector of an index i (the one-hot vector
\* itself included) is forwarded as i, every other vector as -1, each key
\* independently of the other keys, and the wrapped step receives exactly
\* the keys of the wrapped action space.
C11_NearlyOneHotOrMinusOne ==
    oh_forwarded # Nothing =>
        /\ ForwardedKeys
        /\ \A k \in DOMAIN oh_space.spaces :
              LET v == oh_action[k]
                  n == oh_space.spaces[k]
              IN  /\ \A i \in 0..(n - 1) :
                        NearlyOneHot(v, i) => oh_forwarded[1][k] = i
                  /\ (~\E i \in 0..(n - 1) : NearlyOneHot(v, i)) =>
                        oh_forwarded[1][k] = -1

\* C11's case: of two keys, and a third the action space does not have, one
\* holds 0.999999 after a zero and is forwarded as index 1, the other holds
\* two ones and is forwarded as -1.
C11_Witness ==
    /\ oh_forwarded # Nothing
    /\ DOMAIN oh_action = {"action_id", "arg_0_0", "other"}
    /\ oh_action["action_id"] = <<0, One - 100>>
    /\ oh_action["arg_0_0"] = <<One, One>>
    /\ oh_forwarded[1] = ("action_id" :> 1) @@ ("arg_0_0" :> -1)

\* C12: sample() of the space of any key k of OneHotAction.action_space
\* returns a vector of length n_k with one entry 1 and all others 0, which
\* step converts to an index in 0..n_k-1 and never to -1.
C12_SampleIsValidAction ==
    oh_sample # Nothing =>
        LET ret == oh_sample[1].ret
            n == oh_space.spaces[oh_sample[1].key]
        IN  /\ ret.raised = None
            /\ Len(ret.value) = n
            /\ \E i \in 0..(n - 1) : ExactlyOneHot(ret.value, i)
            /\ OneHotIndex(ret.value) \in 0..(n - 1)

(***************************************************************************)
(* Claims about DMC.step                                                   *)
(***************************************************************************)

\* The position of the first last timestep of the script, or its length.
FirstLast ==
    LET lasts == {i \in 1..dmc_repeat : dmc_script[i].last}
    IN  IF lasts = {} THEN dmc_repeat
        ELSE CHOOSE i \in lasts : \A j \in lasts : i <= j

\* The sum of the rewards of the first k timesteps, None counted as 0.
RECURSIVE RewardSum(_)
RewardSum(k) ==
    IF k = 0 THEN 0
    ELSE RewardSum(k - 1)
         + (IF dmc_script[k].reward = Nothing THEN 0 ELSE dmc_script[k].reward[1])

\* A step of DMC returned.
DmcStepReturned ==
    /\ dmc_ret # Nothing
    /\ dmc_ret[1].call = "step"
    /\ dmc_ret[1].ret.raised = None

\* C13: a step of DMC with action_repeat R >= 1 steps the simulator k times,
\* 1 <= k <= R, k the position of the first last timestep or R; no step
\* follows a last timestep; the reward is the sum of the k rewards, None
\* counted as 0, and done is whether the k-th timestep is last.
C13_StepRepeatsUntilLast ==
    DmcStepReturned =>
        LET k == dmc_ret[1].sim_steps
        IN  /\ k = FirstLast
            /\ 1 <= k /\ k <= dmc_repeat
            /\ \A i \in 1..(k - 1) : ~dmc_script[i].last
            /\ dmc_ret[1].ret.value.reward = RewardSum(k)
            /\ dmc_ret[1].ret.value.done = dmc_script[k].last

\* C13's case: of three steps allowed two are made, the second being last;
\* the first has no reward, the second a reward of 2.
C13_Witness ==
    /\ DmcStepReturned
    /\ dmc_repeat = 3
    /\ dmc_script[1] = [reward |-> Nothing, last |-> FALSE]
    /\ dmc_script[2] = [reward |-> Some(2), last |-> TRUE]
    /\ dmc_ret[1].sim_steps = 2
    /\ dmc_ret[1].ret.value.reward = 2
    /\ dmc_ret[1].ret.value.done = TRUE

====
